---- MODULE Spec2Model ----
(***************************************************************************)
(* Model of comet/cli/train.py: train_command().                           *)
(*                                                                         *)
(* train_command is one straight-line script.  The model follows it        *)
(* statement by statement: pc is the statement about to run, the other     *)
(* variables are the script's locals, the process-wide state it touches    *)
(* (random seed, warning filters, standard output) and a trace of every    *)
(* external call and print, in the order they happened.                    *)
(*                                                                         *)
(* The constructors and fit are external collaborators.  A constructor     *)
(* either returns an object holding the keyword arguments it was given or  *)
(* raises; which one is a function of its arguments alone (the argument    *)
(* value 0 stands for every argument set the constructor rejects).         *)
(***************************************************************************)
EXTENDS Integers, Sequences, FiniteSets, TLC

VARIABLES pc, argv, cfg, seeds, checkpoint_callback, early_stop_callback,
          lr_monitor, trainer_args, trainer, model, branch, stdout,
          filters, trace, error

vars == <<pc, argv, cfg, seeds, checkpoint_callback, early_stop_callback,
          lr_monitor, trainer_args, trainer, model, branch, stdout,
          filters, trace, error>>

(* ---------------------------- bounds ----------------------------------- *)

\* a variant's init_args range over 0..MaxArg; 0 is rejected by the
\* constructor
MaxArg == 1

\* --seed_everything values given on the command line range over 0..MaxSeed
MaxSeed == 0

ArgVals == 0..MaxArg

SeedVals == 0..MaxSeed

(* --------------------------- constants --------------------------------- *)

\* parser.add_argument("--seed_everything", type=int, default=12)
DefaultSeed == 12

\* the five add_subclass_arguments keys of the model variants, in the order
\* of the if/elif chain
Priority ==
  <<"regression_metric", "referenceless_regression_metric",
    "ranking_metric", "unite_metric", "cspec_metric">>

VariantKeys == {Priority[i] : i \in 1..Len(Priority)}

ModelClasses ==
  {"RegressionMetric", "ReferencelessRegression", "RankingMetric",
   "UniTEMetric", "CSPECMetric"}

CallbackClasses == {"ModelCheckpoint", "EarlyStopping", "LearningRateMonitor"}

\* a local that has not been assigned yet
Unbound == [class |-> "None"]

\* the callbacks a user may have put under trainer.init_args.callbacks
UserCallbacks == <<[class |-> "UserCallback", args |-> 1]>>

(* ------------------------- the command line ---------------------------- *)

\* keyword arguments of the callbacks and of the Trainer: 0 is rejected by
\* the constructor, 1 is accepted
KwargVals == {0, 1}

\* trainer.init_args as given by the user: any subset of these two keys
TrainerInitArgs ==
  UNION {[K -> KwargVals] : K \in SUBSET {"callbacks", "max_epochs"}}

\* callbacks is not a number: replace the placeholder by the user's list
UserTrainerArgs(f) ==
  [k \in DOMAIN f |-> IF k = "callbacks" THEN UserCallbacks ELSE f[k]]

\* every command line + configuration file the parser accepts.
\*   seed_everything : {} when the flag is absent, {n} when given
\*   variants        : the variant namespaces that are not None, each with
\*                     its init_args
\*   order           : the order in which the two callback namespaces are
\*                     written in the configuration file
\*   unknown         : the input holds a key the parser does not know
ValidArgvs ==
  [seed_everything : {{}} \cup {{s} : s \in SeedVals},
   variants : UNION {[K -> ArgVals] : K \in SUBSET VariantKeys},
   early_stopping : KwargVals,
   model_checkpoint : KwargVals,
   trainer : {UserTrainerArgs(f) : f \in {g \in TrainerInitArgs :
                 "callbacks" \in DOMAIN g => g["callbacks"] = 1}},
   order : {<<"early_stopping", "model_checkpoint">>,
            <<"model_checkpoint", "early_stopping">>},
   unknown : {FALSE}]

\* inputs the parser refuses: what else they hold is never read
InvalidArgvs ==
  [seed_everything : {{}} \cup {{s} : s \in SeedVals},
   variants : UNION {[K -> ArgVals] : K \in {{}, {"ranking_metric"}}},
   early_stopping : {1},
   model_checkpoint : {1},
   trainer : {<<>>},
   order : {<<"early_stopping", "model_checkpoint">>},
   unknown : {TRUE}]

Argvs == ValidArgvs \cup InvalidArgvs

(* ------------------------- pure functions ------------------------------ *)

\* variant: the if/elif chain is evaluated before anything is constructed
ProgramSelectFirst ==
  <<"parse_args", "seed_everything", "select", "ModelCheckpoint",
    "EarlyStopping", "namespace_to_dict", "LearningRateMonitor",
    "set_callbacks", "print_trainer", "Trainer", "print_model", "construct",
    "filterwarnings", "fit">>

\* variant: the Trainer arguments are printed after the Trainer is built
ProgramPrintLate ==
  <<"parse_args", "seed_everything", "ModelCheckpoint", "EarlyStopping",
    "namespace_to_dict", "LearningRateMonitor", "set_callbacks",
    "Trainer", "print_trainer", "print_model", "select", "construct",
    "filterwarnings", "fit">>

\* variant: the callbacks are constructed in the order of the callback list
ProgramListOrder ==
  <<"parse_args", "seed_everything", "EarlyStopping", "ModelCheckpoint",
    "namespace_to_dict", "LearningRateMonitor", "set_callbacks",
    "print_trainer", "Trainer", "print_model", "select", "construct",
    "filterwarnings", "fit">>

\* the statements of train_command in source order
Program ==
  <<"parse_args", "seed_everything", "ModelCheckpoint", "EarlyStopping",
    "namespace_to_dict", "LearningRateMonitor", "set_callbacks",
    "print_trainer", "Trainer", "print_model", "select", "construct",
    "filterwarnings", "fit">>

IndexOf(l) == CHOOSE i \in 1..Len(Program) : Program[i] = l

\* the statement after l; falling off the end is the normal return
After(l) ==
  IF IndexOf(l) = Len(Program) THEN "done" ELSE Program[IndexOf(l) + 1]

\* variant: the exception is caught and the run goes on
RaiseSwallowed(l) == After(l)

\* an exception is never caught: it ends the run
Raise(l) == "error"

\* variant: the default seed is 0
ResolveSeedZero(a) ==
  IF a.seed_everything = {} THEN 0
  ELSE CHOOSE s \in a.seed_everything : TRUE

\* cfg.seed_everything: the flag's value, or the default
ResolveSeed(a) ==
  IF a.seed_everything = {} THEN DefaultSeed
  ELSE CHOOSE s \in a.seed_everything : TRUE

\* parser.parse_args() on an input it accepts
ParseArgs(a) ==
  [resolved |-> TRUE,
   seed_everything |-> ResolveSeed(a),
   variants |-> a.variants,
   early_stopping |-> a.early_stopping,
   model_checkpoint |-> a.model_checkpoint,
   trainer |-> a.trainer]

\* variant: the second branch constructs the class of the first
ClassOfCopyPaste(v) ==
  CASE v = "regression_metric" -> "RegressionMetric"
    [] v = "referenceless_regression_metric" -> "RegressionMetric"
    [] v = "ranking_metric" -> "RankingMetric"
    [] v = "unite_metric" -> "UniTEMetric"
    [] v = "cspec_metric" -> "CSPECMetric"

\* the class each branch of the if/elif chain constructs
ClassOf(v) ==
  CASE v = "regression_metric" -> "RegressionMetric"
    [] v = "referenceless_regression_metric" -> "ReferencelessRegression"
    [] v = "ranking_metric" -> "RankingMetric"
    [] v = "unite_metric" -> "UniTEMetric"
    [] v = "cspec_metric" -> "CSPECMetric"

\* the if/elif chain: the first key of Priority, from position i on, whose
\* namespace is not None; "none" is the else branch
RECURSIVE Scan(_, _)
Scan(present, i) ==
  IF i > Len(Priority) THEN "none"
  ELSE IF Priority[i] \in present THEN Priority[i]
  ELSE Scan(present, i + 1)

\* variant: the chain is written in the reverse order
RECURSIVE ScanBack(_, _)
ScanBack(present, i) ==
  IF i < 1 THEN "none"
  ELSE IF Priority[i] \in present THEN Priority[i]
  ELSE ScanBack(present, i - 1)

SelectLast(present) == ScanBack(present, Len(Priority))

Select(present) == Scan(present, 1)

\* variant: the list follows the order of construction
CallbackListAsBuilt(es, mc, lr) == <<mc, es, lr>>

\* [early_stop_callback, checkpoint_callback, lr_monitor]
CallbackList(es, mc, lr) == <<es, mc, lr>>

\* variant: the assembled callbacks are appended to the user's
SetCallbacksExtend(args, cbs) ==
  [k \in DOMAIN args \cup {"callbacks"} |->
     IF k = "callbacks"
     THEN (IF "callbacks" \in DOMAIN args THEN args[k] \o cbs ELSE cbs)
     ELSE args[k]]

\* trainer_args["callbacks"] = cbs
SetCallbacks(args, cbs) ==
  [k \in DOMAIN args \cup {"callbacks"} |->
     IF k = "callbacks" THEN cbs ELSE args[k]]

\* json.dumps(x, indent=4, default=...): one JSON text for x
Dumps(what, x) == [kind |-> "json", of |-> what, body |-> x]

\* print("...") of a fixed line
Line(s) == [kind |-> "text", of |-> s]

\* variant: the last present variant's init_args are printed
AuditedLast(c, v) == c.variants[SelectLast(DOMAIN c.variants)]

\* the init_args whose JSON goes to standard output in branch v
Audited(c, v) == c.variants[v]

\* a callback or model constructor rejects its keyword arguments
Rejects(kwargs) == kwargs = 0

\* the Trainer constructor rejects its keyword arguments
TrainerRejects(kwargs) ==
  "max_epochs" \in DOMAIN kwargs /\ kwargs["max_epochs"] = 0

\* one entry of the trace
Event(what, ok, arg) == [what |-> what, ok |-> ok, arg |-> arg]

(* ------------------------------ Init ----------------------------------- *)

Init ==
  /\ pc = Program[1]
  /\ argv \in Argvs
  /\ cfg = [resolved |-> FALSE]
  /\ seeds = <<>>
  /\ checkpoint_callback = Unbound
  /\ early_stop_callback = Unbound
  /\ lr_monitor = Unbound
  /\ trainer_args = <<>>
  /\ trainer = Unbound
  /\ model = Unbound
  /\ branch = "unset"
  /\ stdout = <<>>
  /\ filters = <<>>
  /\ trace = <<>>
  /\ error = "none"

(* ----------------------------- actions --------------------------------- *)

\* line 64: cfg = parser.parse_args()
Parse ==
  /\ pc = "parse_args"
  /\ IF argv.unknown
     THEN /\ pc' = Raise(pc)
          /\ error' = "ConfigurationError"
          /\ trace' = Append(trace, Event("parse_args", FALSE, 0))
          /\ UNCHANGED cfg
     ELSE /\ pc' = After(pc)
          /\ cfg' = ParseArgs(argv)
          /\ trace' = Append(trace, Event("parse_args", TRUE, 0))
          /\ UNCHANGED error
  /\ UNCHANGED <<argv, seeds, checkpoint_callback, early_stop_callback,
                 lr_monitor, trainer_args, trainer, model, branch, stdout,
                 filters>>

\* line 65: seed_everything(cfg.seed_everything)
Seed ==
  /\ pc = "seed_everything"
  /\ seeds' = Append(seeds, cfg.seed_everything)
  /\ trace' = Append(trace, Event("seed_everything", TRUE, cfg.seed_everything))
  /\ pc' = After(pc)
  /\ UNCHANGED <<argv, cfg, checkpoint_callback, early_stop_callback,
                 lr_monitor, trainer_args, trainer, model, branch, stdout,
                 filters, error>>

\* lines 67-69: checkpoint_callback = ModelCheckpoint(**init_args)
MakeCheckpoint ==
  /\ pc = "ModelCheckpoint"
  /\ LET kw == cfg.model_checkpoint IN
     IF Rejects(kw)
     THEN /\ pc' = Raise(pc)
          /\ error' = "ModelCheckpoint rejected its arguments"
          /\ trace' = Append(trace, Event("ModelCheckpoint", FALSE, kw))
          /\ UNCHANGED checkpoint_callback
     ELSE /\ pc' = After(pc)
          /\ checkpoint_callback' = [class |-> "ModelCheckpoint", args |-> kw]
          /\ trace' = Append(trace, Event("ModelCheckpoint", TRUE, kw))
          /\ UNCHANGED error
  /\ UNCHANGED <<argv, cfg, seeds, early_stop_callback, lr_monitor,
                 trainer_args, trainer, model, branch, stdout, filters>>

\* lines 70-72: early_stop_callback = EarlyStopping(**init_args)
MakeEarlyStopping ==
  /\ pc = "EarlyStopping"
  /\ LET kw == cfg.early_stopping IN
     IF Rejects(kw)
     THEN /\ pc' = Raise(pc)
          /\ error' = "EarlyStopping rejected its arguments"
          /\ trace' = Append(trace, Event("EarlyStopping", FALSE, kw))
          /\ UNCHANGED early_stop_callback
     ELSE /\ pc' = After(pc)
          /\ early_stop_callback' = [class |-> "EarlyStopping", args |-> kw]
          /\ trace' = Append(trace, Event("EarlyStopping", TRUE, kw))
          /\ UNCHANGED error
  /\ UNCHANGED <<argv, cfg, seeds, checkpoint_callback, lr_monitor,
                 trainer_args, trainer, model, branch, stdout, filters>>

\* line 73: trainer_args = namespace_to_dict(cfg.trainer.init_args)
TrainerArgs ==
  /\ pc = "namespace_to_dict"
  /\ trainer_args' = cfg.trainer
  /\ pc' = After(pc)
  /\ UNCHANGED <<argv, cfg, seeds, checkpoint_callback, early_stop_callback,
                 lr_monitor, trainer, model, branch, stdout, filters, trace,
                 error>>

\* line 74: lr_monitor = LearningRateMonitor(logging_interval='step')
MakeLRMonitor ==
  /\ pc = "LearningRateMonitor"
  /\ lr_monitor' = [class |-> "LearningRateMonitor", logging_interval |-> "step"]
  /\ trace' = Append(trace, Event("LearningRateMonitor", TRUE, "step"))
  /\ pc' = After(pc)
  /\ UNCHANGED <<argv, cfg, seeds, checkpoint_callback, early_stop_callback,
                 trainer_args, trainer, model, branch, stdout, filters, error>>

\* line 75: trainer_args["callbacks"] = [early_stop_callback,
\*                                       checkpoint_callback, lr_monitor]
AssignCallbacks ==
  /\ pc = "set_callbacks"
  /\ trainer_args' =
       SetCallbacks(trainer_args,
                    CallbackList(early_stop_callback, checkpoint_callback,
                                 lr_monitor))
  /\ pc' = After(pc)
  /\ UNCHANGED <<argv, cfg, seeds, checkpoint_callback, early_stop_callback,
                 lr_monitor, trainer, model, branch, stdout, filters, trace,
                 error>>

\* lines 76-77: print("TRAINER ARGUMENTS: "); print(json.dumps(trainer_args))
PrintTrainer ==
  /\ pc = "print_trainer"
  /\ stdout' = stdout \o <<Line("TRAINER ARGUMENTS: "),
                           Dumps("trainer_args", trainer_args)>>
  /\ trace' = trace \o <<Event("print", TRUE, "TRAINER ARGUMENTS: "),
                         Event("print_json", TRUE, "trainer_args")>>
  /\ pc' = After(pc)
  /\ UNCHANGED <<argv, cfg, seeds, checkpoint_callback, early_stop_callback,
                 lr_monitor, trainer_args, trainer, model, branch, filters,
                 error>>

\* line 78: trainer = Trainer(**trainer_args)
MakeTrainer ==
  /\ pc = "Trainer"
  /\ IF TrainerRejects(trainer_args)
     THEN /\ pc' = Raise(pc)
          /\ error' = "Trainer rejected its arguments"
          /\ trace' = Append(trace, Event("Trainer", FALSE, trainer_args))
          /\ UNCHANGED trainer
     ELSE /\ pc' = After(pc)
          /\ trainer' = [class |-> "Trainer", kwargs |-> trainer_args]
          /\ trace' = Append(trace, Event("Trainer", TRUE, trainer_args))
          /\ UNCHANGED error
  /\ UNCHANGED <<argv, cfg, seeds, checkpoint_callback, early_stop_callback,
                 lr_monitor, trainer_args, model, branch, stdout, filters>>

\* line 80: print("MODEL ARGUMENTS: ")
PrintModel ==
  /\ pc = "print_model"
  /\ stdout' = Append(stdout, Line("MODEL ARGUMENTS: "))
  /\ trace' = Append(trace, Event("print", TRUE, "MODEL ARGUMENTS: "))
  /\ pc' = After(pc)
  /\ UNCHANGED <<argv, cfg, seeds, checkpoint_callback, early_stop_callback,
                 lr_monitor, trainer_args, trainer, model, branch, filters,
                 error>>

\* lines 81-121: the if/elif chain up to and including the branch's print;
\* the else branch raises
SelectModel ==
  /\ pc = "select"
  /\ LET v == Select(DOMAIN cfg.variants) IN
     IF v = "none"
     THEN /\ pc' = Raise(pc)
          /\ error' = "Model configurations missing!"
          /\ UNCHANGED <<branch, stdout, trace>>
     ELSE /\ pc' = After(pc)
          /\ branch' = v
          /\ stdout' = Append(stdout, Dumps(v, Audited(cfg, v)))
          /\ trace' = Append(trace, Event("print_json", TRUE, v))
          /\ UNCHANGED error
  /\ UNCHANGED <<argv, cfg, seeds, checkpoint_callback, early_stop_callback,
                 lr_monitor, trainer_args, trainer, model, filters>>

\* lines 87, 96-98, 105, 112, 119: model = <Class>(**init_args) of the branch
ConstructModel ==
  /\ pc = "construct"
  /\ LET kw == cfg.variants[branch]
         cls == ClassOf(branch) IN
     IF Rejects(kw)
     THEN /\ pc' = Raise(pc)
          /\ error' = "model rejected its arguments"
          /\ trace' = Append(trace, Event(cls, FALSE, kw))
          /\ UNCHANGED model
     ELSE /\ pc' = After(pc)
          /\ model' = [class |-> cls, kwargs |-> kw]
          /\ trace' = Append(trace, Event(cls, TRUE, kw))
          /\ UNCHANGED error
  /\ UNCHANGED <<argv, cfg, seeds, checkpoint_callback, early_stop_callback,
                 lr_monitor, trainer_args, trainer, branch, stdout, filters>>

\* lines 126-130: warnings.filterwarnings("ignore", category=UserWarning, ...)
FilterWarnings ==
  /\ pc = "filterwarnings"
  /\ filters' = Append(filters, "num_workers")
  /\ trace' = Append(trace, Event("filterwarnings", TRUE, "num_workers"))
  /\ pc' = After(pc)
  /\ UNCHANGED <<argv, cfg, seeds, checkpoint_callback, early_stop_callback,
                 lr_monitor, trainer_args, trainer, model, branch, stdout,
                 error>>

\* line 131: trainer.fit(model); training is opaque: it returns or raises
Fit ==
  /\ pc = "fit"
  /\ \E ok \in BOOLEAN :
       /\ trace' = Append(trace, Event("fit", ok, model))
       /\ IF ok
          THEN pc' = After(pc) /\ UNCHANGED error
          ELSE pc' = Raise(pc) /\ error' = "fit failed"
  /\ UNCHANGED <<argv, cfg, seeds, checkpoint_callback, early_stop_callback,
                 lr_monitor, trainer_args, trainer, model, branch, stdout,
                 filters>>

Next ==
  \/ Parse
  \/ Seed
  \/ MakeCheckpoint
  \/ MakeEarlyStopping
  \/ TrainerArgs
  \/ MakeLRMonitor
  \/ AssignCallbacks
  \/ PrintTrainer
  \/ MakeTrainer
  \/ PrintModel
  \/ SelectModel
  \/ ConstructModel
  \/ FilterWarnings
  \/ Fit

Spec == Init /\ [][Next]_vars

(* -------------------------- vocabulary --------------------------------- *)

\* the type each variant sub-configuration names
ExpectedClass ==
  [regression_metric |-> "RegressionMetric",
   referenceless_regression_metric |-> "ReferencelessRegression",
   ranking_metric |-> "RankingMetric",
   unite_metric |-> "UniTEMetric",
   cspec_metric |-> "CSPECMetric"]

\* the stated priority order of the variants
StatedOrder ==
  <<"RegressionMetric", "ReferencelessRegression", "RankingMetric",
    "UniTEMetric", "CSPECMetric">>

RankOf(cls) == CHOOSE i \in 1..Len(StatedOrder) : StatedOrder[i] = cls

Idx == DOMAIN trace

Calls(w) == {i \in Idx : trace[i].what = w}

ModelCalls == {i \in Idx : trace[i].what \in ModelClasses}

CtorCalls ==
  {i \in Idx : trace[i].what \in ModelClasses \cup CallbackClasses \cup {"Trainer"}}

\* w was called and returned before position i of the trace
DoneBefore(w, i) == \E j \in Idx : j < i /\ trace[j].what = w /\ trace[j].ok

ModelDoneBefore(i) ==
  \E j \in Idx : j < i /\ trace[j].what \in ModelClasses /\ trace[j].ok

Present == DOMAIN cfg.variants

IsJson(line) == line.kind = "json"

JsonBlocks == SelectSeq(stdout, IsJson)

PastConstruct == pc \in {"filterwarnings", "fit", "done"} \/ Calls("fit") # {}

(* ------------------------------ C1 ------------------------------------- *)

\* C1: when exactly one variant sub-configuration is present, every model
\* constructor call of the run is the call of that variant's constructor
\* with that variant's init_args, it is called once the run reaches model
\* construction, and the model the run holds is of that variant's type.
C1_OnlyConfiguredVariant ==
  (cfg.resolved /\ Cardinality(Present) = 1) =>
    LET v == CHOOSE w \in Present : TRUE IN
    /\ \A i \in ModelCalls :
         /\ trace[i].what = ExpectedClass[v]
         /\ trace[i].arg = cfg.variants[v]
    /\ model.class \in {"None", ExpectedClass[v]}
    /\ model.class # "None" => model.kwargs = cfg.variants[v]
    /\ PastConstruct =>
         /\ model.class = ExpectedClass[v]
         /\ Cardinality(ModelCalls) = 1

C1_Witness ==
  /\ pc = "done"
  /\ cfg.resolved
  /\ Present = {"referenceless_regression_metric"}
  /\ model.class = "ReferencelessRegression"

(* ------------------------------ C2 ------------------------------------- *)

\* C2 as stated: when the run fails with 'Model configurations missing', no
\* model, no callback and no Trainer object has been constructed.
C2_NothingBuiltAtMissing ==
  error = "Model configurations missing!" =>
    /\ model.class = "None"
    /\ checkpoint_callback.class = "None"
    /\ early_stop_callback.class = "None"
    /\ lr_monitor.class = "None"
    /\ trainer.class = "None"

\* C2 amended: when no variant sub-configuration is present, no model
\* constructor and no fit is ever invoked and no model object exists; the
\* run raises 'Model configurations missing' only for such a configuration,
\* and at that moment the three callbacks and the Trainer have already been
\* constructed; once the run has failed with the callbacks and the Trainer
\* built, the error is 'Model configurations missing'.
C2_MissingAfterDriver ==
  /\ (cfg.resolved /\ Present = {}) =>
       /\ ModelCalls = {}
       /\ Calls("fit") = {}
       /\ model.class = "None"
       /\ pc \notin {"construct", "filterwarnings", "fit", "done"}
       /\ (pc = "error" /\ trainer.class = "Trainer") =>
            error = "Model configurations missing!"
  /\ error = "Model configurations missing!" =>
       /\ cfg.resolved /\ Present = {}
       /\ pc = "error"
       /\ model.class = "None"
       /\ checkpoint_callback.class = "ModelCheckpoint"
       /\ early_stop_callback.class = "EarlyStopping"
       /\ lr_monitor.class = "LearningRateMonitor"
       /\ trainer.class = "Trainer"
       /\ \E i \in Idx : trace[i].what = "Trainer" /\ trace[i].ok

C2_Witness ==
  /\ error = "Model configurations missing!"
  /\ cfg.resolved
  /\ Present = {}
  /\ trainer.class = "Trainer"

(* ------------------------------ C3 ------------------------------------- *)

\* C3: when two or more variant sub-configurations are present, the only
\* model constructor called is that of the present variant earliest in the
\* stated order, with its own init_args; the other present variants are not
\* constructed and their arguments cause no error.
C3_EarliestPresentWins ==
  (cfg.resolved /\ Cardinality(Present) >= 2) =>
    /\ Cardinality(ModelCalls) <= 1
    /\ \A i \in ModelCalls :
         /\ \E v \in Present :
              /\ trace[i].what = ExpectedClass[v]
              /\ trace[i].arg = cfg.variants[v]
         /\ \A w \in Present :
              RankOf(trace[i].what) <= RankOf(ExpectedClass[w])
    /\ PastConstruct =>
         /\ ModelCalls # {}
         /\ \A w \in Present :
              RankOf(model.class) <= RankOf(ExpectedClass[w])
    /\ error # "Model configurations missing!"
    /\ error = "model rejected its arguments" =>
         \E i \in ModelCalls : ~trace[i].ok /\ Rejects(trace[i].arg)

C3_Witness ==
  /\ pc = "done"
  /\ cfg.resolved
  /\ Present = {"ranking_metric", "unite_metric", "cspec_metric"}
  /\ Rejects(cfg.variants["cspec_metric"])
  /\ model.class = "RankingMetric"

(* ------------------------------ C4 ------------------------------------- *)

\* C4: whenever the Trainer constructor is called, the callbacks it is given
\* are exactly three: the EarlyStopping callback, the ModelCheckpoint
\* callback and the LearningRateMonitor, in this order, whatever the order
\* of the two namespaces in the configuration.
C4_CallbackOrder ==
  \A i \in Calls("Trainer") :
    LET cb == trace[i].arg["callbacks"] IN
    /\ Len(cb) = 3
    /\ cb[1].class = "EarlyStopping"
    /\ cb[1].args = cfg.early_stopping
    /\ cb[2].class = "ModelCheckpoint"
    /\ cb[2].args = cfg.model_checkpoint
    /\ cb[3].class = "LearningRateMonitor"
    /\ cb[3].logging_interval = "step"

C4_Witness ==
  /\ trainer.class = "Trainer"
  /\ argv.order = <<"model_checkpoint", "early_stopping">>
  /\ Len(trainer.kwargs["callbacks"]) = 3

(* ------------------------------ C5 ------------------------------------- *)

\* C5: when trainer.init_args already holds a callbacks entry, the mapping
\* given to the Trainer constructor has the same keys, its callbacks entry
\* holds the three assembled callbacks and none of the user's, and every
\* other key keeps the user's value.
C5_CallbacksOverwritten ==
  \A i \in Calls("Trainer") :
    "callbacks" \in DOMAIN cfg.trainer =>
      LET kw == trace[i].arg IN
      /\ DOMAIN kw = DOMAIN cfg.trainer
      /\ Len(kw["callbacks"]) = 3
      /\ \A n \in 1..Len(kw["callbacks"]) :
           kw["callbacks"][n].class \in CallbackClasses
      /\ kw["callbacks"][1] = early_stop_callback
      /\ kw["callbacks"][2] = checkpoint_callback
      /\ kw["callbacks"][3] = lr_monitor
      /\ \A k \in DOMAIN cfg.trainer \ {"callbacks"} : kw[k] = cfg.trainer[k]

C5_Witness ==
  /\ trainer.class = "Trainer"
  /\ DOMAIN cfg.trainer = {"callbacks", "max_epochs"}
  /\ cfg.trainer["callbacks"] = UserCallbacks
  /\ trainer.kwargs["max_epochs"] = cfg.trainer["max_epochs"]

(* ------------------------------ C6 ------------------------------------- *)

\* C6: the random state is seeded at most once, and exactly once as soon as
\* a resolved configuration is past the seeding step; the seed is the
\* resolved one, 12 when the flag is absent and the flag's value otherwise;
\* seeding follows a successful parse and precedes every constructor call
\* and fit.
C6_SeededOnceFirst ==
  /\ Len(seeds) <= 1
  /\ Cardinality(Calls("seed_everything")) = Len(seeds)
  /\ (cfg.resolved /\ pc # "seed_everything") => Len(seeds) = 1
  /\ Len(seeds) = 1 =>
       /\ cfg.resolved
       /\ seeds[1] = cfg.seed_everything
       /\ argv.seed_everything = {} => seeds[1] = 12
       /\ argv.seed_everything # {} => seeds[1] \in argv.seed_everything
  /\ \A i \in Calls("seed_everything") : DoneBefore("parse_args", i)
  /\ \A i \in CtorCalls \cup Calls("fit") : DoneBefore("seed_everything", i)

C6_Witness ==
  /\ argv.seed_everything = {}
  /\ seeds = <<12>>
  /\ trainer.class = "Trainer"
  /\ model.class # "None"

(* ------------------------------ C7 ------------------------------------- *)

\* C7: fit is invoked at most once, after parse_args, seed_everything, the
\* three callback constructors, the Trainer constructor and a model
\* constructor have all returned, and with the model that constructor
\* returned; every step is invoked at most once; a step that fails is the
\* last thing the run does and leaves the run in the error state.
C7_FitOnceNoRetry ==
  /\ Cardinality(Calls("fit")) <= 1
  /\ Cardinality(ModelCalls) <= 1
  /\ \A w \in CallbackClasses \cup {"Trainer", "parse_args", "seed_everything"} :
       Cardinality(Calls(w)) <= 1
  /\ \A i \in Calls("fit") :
       /\ DoneBefore("parse_args", i)
       /\ DoneBefore("seed_everything", i)
       /\ \A w \in CallbackClasses \cup {"Trainer"} : DoneBefore(w, i)
       /\ \E j \in ModelCalls :
            /\ j < i
            /\ trace[j].ok
            /\ trace[i].arg.class = trace[j].what
            /\ trace[i].arg.kwargs = trace[j].arg
       /\ \A j \in Idx : j < i => trace[j].ok
  /\ \A i \in Idx : ~trace[i].ok => (i = Len(trace) /\ pc = "error")
  /\ error # "none" <=> pc = "error"
  /\ (pc = "error" /\ error # "fit failed") => Calls("fit") = {}

C7_Witness ==
  /\ pc = "error"
  /\ error = "fit failed"
  /\ Cardinality(Calls("fit")) = 1
  /\ trainer.class = "Trainer"

(* ------------------------------ C8 ------------------------------------- *)

\* C8: once the run has reached fit, standard output holds exactly two JSON
\* blocks: the first is the Trainer's keyword arguments with the three
\* assembled callbacks, the second is the init_args of the variant whose
\* model was constructed; both were printed before fit was invoked.
C8_TwoAuditBlocks ==
  (pc \in {"fit", "done"} \/ Calls("fit") # {}) =>
    /\ Len(JsonBlocks) = 2
    /\ JsonBlocks[1].of = "trainer_args"
    /\ JsonBlocks[1].body = trainer.kwargs
    /\ Len(JsonBlocks[1].body["callbacks"]) = 3
    /\ JsonBlocks[2].of \in Present
    /\ ExpectedClass[JsonBlocks[2].of] = model.class
    /\ JsonBlocks[2].body = model.kwargs
    /\ JsonBlocks[2].body = cfg.variants[JsonBlocks[2].of]
    /\ Cardinality(Calls("print_json")) = 2
    /\ \A i \in Calls("fit") : \A j \in Calls("print_json") : j < i

C8_Witness ==
  /\ pc = "fit"
  /\ Cardinality(Present) >= 2
  /\ Len(JsonBlocks) = 2
  /\ \E v \in Present, w \in Present : cfg.variants[v] # cfg.variants[w]

(* ------------------------------ C9 ------------------------------------- *)

\* C9 as stated: no audit block is printed before the Trainer and the model
\* have both been constructed.
C9_AuditAfterBothBuilt ==
  \A i \in Calls("print_json") : DoneBefore("Trainer", i) /\ ModelDoneBefore(i)

\* the stage of the run an entry of the trace belongs to (0: not a stage)
StageOf(e) ==
  CASE e.what \in CallbackClasses -> 1
    [] e.what = "print_json" -> IF e.arg = "trainer_args" THEN 2 ELSE 4
    [] e.what = "Trainer" -> 3
    [] e.what \in ModelClasses -> 5
    [] e.what = "filterwarnings" -> 6
    [] e.what = "fit" -> 7
    [] OTHER -> 0

\* C9 amended: the steps happen in this order, each completing before the
\* next begins: build the three callbacks, print the Trainer arguments,
\* construct the Trainer, print the selected variant's init_args, construct
\* the model, install the warning filter, invoke fit; so each audit block is
\* printed just before the constructor it describes is called.
C9_StepOrder ==
  /\ \A i \in Idx, j \in Idx :
       (i < j /\ StageOf(trace[i]) > 0 /\ StageOf(trace[j]) > 0) =>
         /\ StageOf(trace[i]) <= StageOf(trace[j])
         /\ trace[i].ok
  /\ \A j \in Idx :
       StageOf(trace[j]) > 1 =>
         \E i \in Idx : i < j /\ StageOf(trace[i]) = StageOf(trace[j]) - 1
  /\ \A j \in Idx :
       StageOf(trace[j]) = 2 => \A w \in CallbackClasses : DoneBefore(w, j)
  /\ \A j \in Calls("Trainer") :
       /\ ~ModelDoneBefore(j)
       /\ \E i \in Calls("print_json") : i < j /\ trace[i].arg = "trainer_args"
  /\ \A j \in ModelCalls :
       /\ DoneBefore("Trainer", j)
       /\ Cardinality({i \in Calls("print_json") : i < j}) = 2

C9_Witness ==
  /\ pc = "done"
  /\ Cardinality(Calls("print_json")) = 2
  /\ Calls("filterwarnings") # {}

(* ------------------------------ C10 ------------------------------------ *)

\* C10: the callback constructors are called in the order ModelCheckpoint,
\* EarlyStopping, LearningRateMonitor, the Trainer only after all three have
\* returned; when both the model_checkpoint and the early_stopping arguments
\* are rejected, the run ends with the ModelCheckpoint failure and
\* EarlyStopping, the Trainer and the model constructors are never called.
C10_ConstructionOrder ==
  /\ \A i \in Calls("EarlyStopping") : DoneBefore("ModelCheckpoint", i)
  /\ \A i \in Calls("LearningRateMonitor") : DoneBefore("EarlyStopping", i)
  /\ \A i \in Calls("Trainer") :
       \A w \in CallbackClasses : DoneBefore(w, i)
  /\ (cfg.resolved /\ Rejects(cfg.model_checkpoint)
        /\ Rejects(cfg.early_stopping)) =>
       /\ Calls("EarlyStopping") = {}
       /\ Calls("LearningRateMonitor") = {}
       /\ Calls("Trainer") = {}
       /\ ModelCalls = {}
       /\ pc \in {"seed_everything", "ModelCheckpoint", "error"}
       /\ pc = "error" => error = "ModelCheckpoint rejected its arguments"

C10_Witness ==
  /\ pc = "error"
  /\ cfg.resolved
  /\ Rejects(cfg.model_checkpoint)
  /\ Rejects(cfg.early_stopping)
  /\ error = "ModelCheckpoint rejected its arguments"
  /\ \E i \in Calls("ModelCheckpoint") : ~trace[i].ok

====
